---- MODULE Spec2Model ----
(***************************************************************************)
(* Model of the metadata reader of dwarfs (src/dwarfs/metadata_v2.cpp).    *)
(*                                                                         *)
(* A frozen metadata record is modelled as a TLA+ record of its tables.    *)
(* Tables are sequences; the code indexes them from 0, so At(t, i) reads   *)
(* element i of table t.  An entry_view is the position of the entry in    *)
(* the entries table (a view is a pointer into the buffer, so its identity *)
(* is its position).  Strings are sequences of byte values.                *)
(***************************************************************************)
EXTENDS Integers, Sequences, FiniteSets, TLC

VARIABLES
  opened,               \* a metadata_v2_ object has been constructed
  meta_,                \* the mapped frozen record (tables)
  root_,                \* cached entry_view of the root
  inode_offset_,        \* cached inode offset
  chunk_index_offset_,  \* cached chunk index offset
  call,                 \* the last completed public call and its arguments
  rv,                   \* what that call returned
  stbuf,                \* the stat buffer written by the last getattr
  getdirs,              \* entry_views handed to getdir() during the last call
  visited,              \* entry_views handed to the visitor during the last call
  os,                   \* what the last dump wrote to its output stream
  given,                \* the buffer and inode offset the constructor was given
  second,               \* a second reader: its last completed call and its result
  rendered,             \* a mode word and the string modestring() made of it
  trav,                 \* a walk or dump in progress: its call stack and output
  mk                    \* a run of mkdwarfs: its arguments, position and exit status

\* the state outside the first reader's handle and call
elsewhere == <<second, rendered, trav, mk>>

vars == <<opened, meta_, root_, inode_offset_, chunk_index_offset_,
          call, rv, stbuf, getdirs, visited, os, given, elsewhere>>

----------------------------------------------------------------------------
(* Bounds of the model *)

MaxChildren == 3     \* flat records hold 0..MaxChildren files in the root
MaxPathLen == 5      \* paths given to find(path) have at most this many bytes
MaxNameLen == 2      \* names given to find(inode, name)
MaxInodeOffset == 1  \* inode offsets given at construction are 0..MaxInodeOffset
MaxInodeArg == 7     \* inodes given to find(inode) are -1..MaxInodeArg

----------------------------------------------------------------------------
(* Bytes and strings *)

SLASH == 47          \* '/'; the names below use 'a' = 97, 'b' = 98, '.' = 46

At(t, i) == t[i + 1]
InTable(t, i) == i >= 0 /\ i < Len(t)

RECURSIVE SeqsUpTo(_, _)
SeqsUpTo(S, n) ==
  IF n = 0 THEN {<<>>}
  ELSE LET shorter == SeqsUpTo(S, n - 1)
       IN shorter \cup {Append(s, c) : s \in {t \in shorter : Len(t) = n - 1}, c \in S}

\* std::string_view::compare: byte-wise lexicographic, then by length;
\* negative, zero or positive
RECURSIVE compare(_, _)
compare(s, t) ==
  IF s = <<>> /\ t = <<>> THEN 0
  ELSE IF s = <<>> THEN -1
  ELSE IF t = <<>> THEN 1
  ELSE IF Head(s) < Head(t) THEN -1
  ELSE IF Head(s) > Head(t) THEN 1
  ELSE compare(Tail(s), Tail(t))

----------------------------------------------------------------------------
(* Mode words: <sys/stat.h> as used by the reader *)

S_IFMT == 61440    \* 0170000
S_IFDIR == 16384   \* 0040000
S_IFREG == 32768   \* 0100000
S_IFLNK == 40960   \* 0120000
S_ISUID == 2048    \* 04000
S_ISGID == 1024    \* 02000
S_ISVTX == 512     \* 01000
S_IWUSR == 128     \* 0200
S_IWGRP == 16      \* 020
S_IWOTH == 2       \* 02
UINT16_MAX == 65535

RECURSIVE BitAnd(_, _)
BitAnd(a, b) ==
  IF a = 0 \/ b = 0 THEN 0
  ELSE (a % 2) * (b % 2) + 2 * BitAnd(a \div 2, b \div 2)

RECURSIVE BitOr(_, _)
BitOr(a, b) ==
  IF a = 0 THEN b
  ELSE IF b = 0 THEN a
  ELSE (IF a % 2 = 1 \/ b % 2 = 1 THEN 1 ELSE 0) + 2 * BitOr(a \div 2, b \div 2)

\* ~x truncated to uint16_t
BitNot16(x) == UINT16_MAX - (x % (UINT16_MAX + 1))

S_ISDIR(m) == BitAnd(m, S_IFMT) = S_IFDIR
S_ISREG(m) == BitAnd(m, S_IFMT) = S_IFREG
S_ISLNK(m) == BitAnd(m, S_IFMT) = S_IFLNK

READ_ONLY_MASK_NoOther == BitNot16(BitOr(S_IWUSR, S_IWGRP))

READ_ONLY_MASK == BitNot16(BitOr(BitOr(S_IWUSR, S_IWGRP), S_IWOTH))

----------------------------------------------------------------------------
(* Frozen records handed to the constructor.  The writer is opaque to the  *)
(* reader, so the buffers are written out table by table, the way the      *)
(* reader indexes them.                                                    *)

NAME_a == <<97>>
NAME_ab == <<97, 98>>
NAME_b == <<98>>
NAME_ba == <<98, 97>>
NAME_bb == <<98, 98>>
NamePool == <<NAME_a, NAME_ab, NAME_b, NAME_ba, NAME_bb>>  \* ascending

MODE_DIR == S_IFDIR + 493             \* 0040755
MODE_REG == S_IFREG + 420             \* 0100644
MODE_LNK == S_IFLNK + 511             \* 0120777
MODE_SUID == S_IFREG + S_ISUID + S_ISGID + 511   \* 0106777
MODE_FIFO == 4096 + S_ISVTX + 402     \* 0011622

Entry(n, m, i) == [name_index |-> n, mode |-> m, inode |-> i]
Dir(f, c) == [first_entry |-> f, entry_count |-> c]
Chunk(b, o, s) == [block |-> b, offset |-> o, size |-> s]

\* root holding n empty regular files, names taken from NamePool
FlatRecord(n) ==
  [ entries |-> [i \in 1..(n + 1) |-> IF i = 1 THEN Entry(0, 0, 0) ELSE Entry(i - 1, 1, i - 1)],
    names |-> [i \in 1..(n + 1) |-> IF i = 1 THEN <<>> ELSE NamePool[i - 1]],
    modes |-> <<MODE_DIR, MODE_REG>>,
    directories |-> <<Dir(1, n)>>,
    entry_index |-> [i \in 1..(n + 1) |-> i - 1],
    chunk_index |-> [i \in 1..(n + 1) |-> 0],
    chunks |-> <<>>,
    link_index |-> <<>>,
    links |-> <<>>,
    chunk_index_offset |-> 1,
    link_index_offset |-> n + 1 ]

\*  /            inode 0
\*    a          inode 3, regular, chunks of 4096, 4096 and 17 bytes
\*    b/         inode 1
\*      a -> ../a    inode 5, symlink
\*      b/       inode 2
\*        b      inode 4, regular, one chunk of 512 bytes
NestedRecord ==
  [ entries |-> << Entry(0, 0, 0), Entry(1, 1, 3), Entry(2, 0, 1),
                   Entry(1, 2, 5), Entry(2, 0, 2), Entry(2, 1, 4) >>,
    names |-> << <<>>, NAME_a, NAME_b >>,
    modes |-> <<MODE_DIR, MODE_REG, MODE_LNK>>,
    directories |-> <<Dir(1, 2), Dir(3, 2), Dir(5, 1)>>,
    entry_index |-> <<0, 2, 4, 1, 5, 3>>,
    chunk_index |-> <<0, 3, 4>>,
    chunks |-> <<Chunk(0, 0, 4096), Chunk(0, 4096, 4096), Chunk(1, 0, 17), Chunk(1, 17, 512)>>,
    link_index |-> <<0, 0, 0, 0, 0, 5>>,
    links |-> << <<46, 46, SLASH, 97>> >>,
    chunk_index_offset |-> 3,
    link_index_offset |-> 5 ]

\*  /            inode 0
\*    a          inode 1, regular 06777, chunks of 512 and 1 bytes
\*    b          inode 2, fifo 01622
SpecialRecord ==
  [ entries |-> << Entry(0, 0, 0), Entry(1, 1, 1), Entry(2, 2, 2) >>,
    names |-> << <<>>, NAME_a, NAME_b >>,
    modes |-> <<MODE_DIR, MODE_SUID, MODE_FIFO>>,
    directories |-> <<Dir(1, 2)>>,
    entry_index |-> <<0, 1, 2>>,
    chunk_index |-> <<0, 2>>,
    chunks |-> <<Chunk(0, 0, 512), Chunk(0, 512, 1)>>,
    link_index |-> <<>>,
    links |-> <<>>,
    chunk_index_offset |-> 1,
    link_index_offset |-> 2 ]

\* the root directory claims 3 children, the entries table holds 2 entries
MalformedRecord ==
  [ entries |-> << Entry(0, 0, 0), Entry(1, 1, 1) >>,
    names |-> << <<>>, NAME_a >>,
    modes |-> <<MODE_DIR, MODE_REG>>,
    directories |-> <<Dir(1, 3)>>,
    entry_index |-> <<0, 1>>,
    chunk_index |-> <<0, 0>>,
    chunks |-> <<>>,
    link_index |-> <<>>,
    links |-> <<>>,
    chunk_index_offset |-> 1,
    link_index_offset |-> 2 ]

Buffers ==
  {FlatRecord(n) : n \in 0..MaxChildren} \cup {NestedRecord, SpecialRecord, MalformedRecord}

NoMeta == [ entries |-> <<>>, names |-> <<>>, modes |-> <<>>, directories |-> <<>>,
            entry_index |-> <<>>, chunk_index |-> <<>>, chunks |-> <<>>,
            link_index |-> <<>>, links |-> <<>>,
            chunk_index_offset |-> 0, link_index_offset |-> 0 ]

InodeOffsets == 0..MaxInodeOffset
InodeArgs == -1..MaxInodeArg
PathBytes == {SLASH, 97, 98}
Paths == SeqsUpTo(PathBytes, MaxPathLen)
NameArgs == SeqsUpTo({97, 98}, MaxNameLen)

----------------------------------------------------------------------------
(* std::optional<entry_view>, and the outcomes of a call                   *)

Some(p) == [kind |-> "some", pos |-> p]
None == [kind |-> "none", pos |-> -1]
\* the call read a table out of bounds: its behaviour is undefined
Undefined == [kind |-> "undefined", pos |-> -1]
Crash == [kind |-> "crash", pos |-> -1]

\* what a call whose behaviour is undefined can be observed to do
UndefinedOutcomes(m) ==
  {Crash, None} \cup {Some(p) : p \in 0..(Len(m.entries) - 1)}

Outcomes(m, r) == IF r.kind = "undefined" THEN UndefinedOutcomes(m) ELSE {r}

----------------------------------------------------------------------------
(* Private helpers of metadata_v2_ *)

entry_mode(m, e) == At(m.modes, At(m.entries, e).mode)

entry_name(m, e) == At(m.names, At(m.entries, e).name_index)

\* the table reads of entry_name(entries[it]) stay inside the tables
name_in_bounds(m, it) ==
  InTable(m.entries, it) /\ InTable(m.names, At(m.entries, it).name_index)

getdir_in_bounds(m, e) == InTable(m.directories, At(m.entries, e).inode)

getdir(m, e) == At(m.directories, At(m.entries, e).inode)

get_entry_OffByOne(m, inode_offset, i) ==
  LET inode == i - inode_offset
  IN IF inode >= 0 /\ inode <= Len(m.entry_index)
       THEN IF InTable(m.entry_index, inode)
              THEN Some(At(m.entry_index, inode))
              ELSE Undefined
       ELSE None

get_entry(m, inode_offset, i) ==
  LET inode == i - inode_offset
  IN IF inode >= 0 /\ inode < Len(m.entry_index)
       THEN Some(At(m.entry_index, inode))
       ELSE None

link_name(m, e) ==
  At(m.links, At(m.link_index, At(m.entries, e).inode) - m.link_index_offset)

link_size(m, e) == Len(link_name(m, e))

RECURSIVE chunk_sum(_, _, _, _)
chunk_sum(m, cur, end, size) ==
  IF cur < end
    THEN chunk_sum(m, cur + 1, end, size + At(m.chunks, cur).size)
    ELSE size

reg_file_size(m, chunk_index_offset, e) ==
  LET inode == At(m.entries, e).inode - chunk_index_offset
      cur == At(m.chunk_index, inode)
      end == At(m.chunk_index, inode + 1)
  IN chunk_sum(m, cur, end, 0)

file_size_LinkAsReg(m, chunk_index_offset, e, mode) ==
  IF S_ISREG(mode) THEN reg_file_size(m, chunk_index_offset, e)
  ELSE IF S_ISLNK(mode) THEN 0
  ELSE 0

file_size(m, chunk_index_offset, e, mode) ==
  IF S_ISREG(mode) THEN reg_file_size(m, chunk_index_offset, e)
  ELSE IF S_ISLNK(mode) THEN link_size(m, e)
  ELSE 0

\* every table read of file_size(entry, entry_mode(entry)) is in bounds
file_size_in_bounds(m, chunk_index_offset, e) ==
  /\ InTable(m.entries, e)
  /\ InTable(m.modes, At(m.entries, e).mode)
  /\ LET ino == At(m.entries, e).inode
         mode == entry_mode(m, e)
     IN /\ S_ISREG(mode) =>
             /\ InTable(m.chunk_index, ino - chunk_index_offset)
             /\ InTable(m.chunk_index, ino - chunk_index_offset + 1)
             /\ \A j \in At(m.chunk_index, ino - chunk_index_offset)
                         ..(At(m.chunk_index, ino - chunk_index_offset + 1) - 1) :
                   InTable(m.chunks, j)
        /\ S_ISLNK(mode) =>
             /\ InTable(m.link_index, ino)
             /\ InTable(m.links, At(m.link_index, ino) - m.link_index_offset)

----------------------------------------------------------------------------
(* find(directory_view, std::string_view)                                  *)

\* the comparator handed to std::lower_bound: the int that compare() returns,
\* converted to bool
name_differs(m, it, name) == compare(entry_name(m, it), name) # 0

\* std::lower_bound(first, first + len, name, comp), as libstdc++ and libc++ run
\* it; undefined is set when an iterator outside the entries table is dereferenced
RECURSIVE lower_bound(_, _, _, _)
lower_bound(m, first, len, name) ==
  IF len > 0
    THEN LET half == len \div 2
             middle == first + half
         IN IF ~name_in_bounds(m, middle) THEN [it |-> middle, undefined |-> TRUE]
            ELSE IF name_differs(m, middle, name)
              THEN lower_bound(m, middle + 1, len - half - 1, name)
              ELSE lower_bound(m, first, half, name)
    ELSE [it |-> first, undefined |-> FALSE]

find_dir(m, dir, name) ==
  LET first == dir.first_entry
      last == first + dir.entry_count
      lb == lower_bound(m, first, dir.entry_count, name)
  IN IF lb.undefined THEN Undefined
     ELSE IF lb.it # last
       THEN IF ~name_in_bounds(m, lb.it) THEN Undefined
            ELSE IF entry_name(m, lb.it) = name THEN Some(lb.it) ELSE None
       ELSE None

----------------------------------------------------------------------------
(* find(path) *)

\* ::strchr(path, '/') - path, or -1 for a null result
RECURSIVE strchr(_, _, _)
strchr(path, c, i) ==
  IF i >= Len(path) THEN -1
  ELSE IF At(path, i) = c THEN i
  ELSE strchr(path, c, i + 1)

RECURSIVE skip_slashes(_)
skip_slashes(path) ==
  IF path # <<>> /\ Head(path) = SLASH THEN skip_slashes(Tail(path)) ELSE path

\* the while (*path) loop; dirs collects the entry_views handed to getdir()
RECURSIVE find_loop(_, _, _, _)
find_loop(m, path, e, dirs) ==
  IF path # <<>>
    THEN LET next == strchr(path, SLASH, 0)
             clen == IF next >= 0 THEN next ELSE Len(path)
             dirs2 == Append(dirs, e)
         IN IF ~getdir_in_bounds(m, e) THEN [rv |-> Undefined, dirs |-> dirs2]
            ELSE LET r == find_dir(m, getdir(m, e), SubSeq(path, 1, clen))
                 IN IF r.kind # "some" THEN [rv |-> r, dirs |-> dirs2]
                    ELSE find_loop(m,
                                   IF next >= 0 THEN SubSeq(path, next + 2, Len(path))
                                                ELSE <<>>,
                                   r.pos, dirs2)
    ELSE [rv |-> Some(e), dirs |-> dirs]

find_path(m, root, path) == find_loop(m, skip_slashes(path), root, <<>>)

----------------------------------------------------------------------------
(* find(inode) and find(inode, name) *)

find_inode(m, inode_offset, i) == get_entry(m, inode_offset, i)

find_child(m, inode_offset, i, name) ==
  LET entry == get_entry(m, inode_offset, i)
  IN IF entry.kind = "some"
       THEN IF ~getdir_in_bounds(m, entry.pos)
              THEN [rv |-> Undefined, dirs |-> <<entry.pos>>]
              ELSE [rv |-> find_dir(m, getdir(m, entry.pos), name), dirs |-> <<entry.pos>>]
       ELSE [rv |-> entry, dirs |-> <<>>]

----------------------------------------------------------------------------
(* walk(entry_view, func) *)

RECURSIVE walk_entry(_, _, _)
RECURSIVE walk_range(_, _, _, _)

\* acc: the visitor's calls so far, and whether a table was read out of bounds
walk_entry(m, e, acc) ==
  LET acc1 == [acc EXCEPT !.visited = Append(@, e)]
  IN IF S_ISDIR(At(m.entries, e).mode)
       THEN IF ~getdir_in_bounds(m, e) THEN [acc1 EXCEPT !.undefined = TRUE]
            ELSE LET dir == getdir(m, e)
                 IN walk_range(m, dir.first_entry, dir.first_entry + dir.entry_count, acc1)
       ELSE acc1

walk_range(m, cur, end, acc) ==
  IF acc.undefined THEN acc
  ELSE IF cur < end
    THEN IF ~InTable(m.entries, cur) THEN [acc EXCEPT !.undefined = TRUE]
         ELSE walk_range(m, cur + 1, end, walk_entry(m, cur, acc))
    ELSE acc

walk(m, root) == walk_entry(m, root, [visited |-> <<>>, undefined |-> FALSE])

----------------------------------------------------------------------------
(* getattr(entry_view, stbuf) *)

BLOCK_ROUND == 511
BLOCK_BYTES == 512

st_blocks_RoundDown(size) == size \div BLOCK_BYTES

st_blocks(size) == (size + BLOCK_ROUND) \div BLOCK_BYTES

ZeroStat == [st_mode |-> 0, st_size |-> 0, st_ino |-> 0, st_blocks |-> 0]

getattr(m, inode_offset, chunk_index_offset, e) ==
  LET mode == entry_mode(m, e)
      size == file_size(m, chunk_index_offset, e, mode)
  IN [ZeroStat EXCEPT !.st_mode = BitAnd(mode, READ_ONLY_MASK),
                      !.st_size = size,
                      !.st_ino = At(m.entries, e).inode + inode_offset,
                      !.st_blocks = st_blocks(size)]

Returned(v) == [kind |-> "int", value |-> v]

----------------------------------------------------------------------------
(* modestring(mode) and dump(os, indent, entry, icb)                       *)
(* The output stream is modelled as the sequence of items written to it,   *)
(* one record per entry; indent is the number of spaces.                   *)

S_IRUSR == 256
S_IXUSR == 64
S_IRGRP == 32
S_IXGRP == 8
S_IROTH == 4
S_IXOTH == 1
INDENT_STEP == 2

Flag(mode, bit, ch) == IF BitAnd(mode, bit) # 0 THEN ch ELSE "-"

\* modestring without the sticky column
modestring_NoSticky(mode) ==
  << Flag(mode, S_ISUID, "U"),
     Flag(mode, S_ISGID, "G"),
     IF S_ISDIR(mode) THEN "d" ELSE IF S_ISLNK(mode) THEN "l" ELSE "-",
     Flag(mode, S_IRUSR, "r"),
     Flag(mode, S_IWUSR, "w"),
     Flag(mode, S_IXUSR, "x"),
     Flag(mode, S_IRGRP, "r"),
     Flag(mode, S_IWGRP, "w"),
     Flag(mode, S_IXGRP, "x"),
     Flag(mode, S_IROTH, "r"),
     Flag(mode, S_IWOTH, "w"),
     Flag(mode, S_IXOTH, "x") >>

modestring(mode) ==
  << Flag(mode, S_ISUID, "U"),
     Flag(mode, S_ISGID, "G"),
     Flag(mode, S_ISVTX, "S"),
     IF S_ISDIR(mode) THEN "d" ELSE IF S_ISLNK(mode) THEN "l" ELSE "-",
     Flag(mode, S_IRUSR, "r"),
     Flag(mode, S_IWUSR, "w"),
     Flag(mode, S_IXUSR, "x"),
     Flag(mode, S_IRGRP, "r"),
     Flag(mode, S_IWGRP, "w"),
     Flag(mode, S_IXGRP, "x"),
     Flag(mode, S_IROTH, "r"),
     Flag(mode, S_IWOTH, "w"),
     Flag(mode, S_IXOTH, "x") >>

\* what dump writes for one entry; the fields a type does not print stay empty
Item(indent, inode, mode, kind) ==
  [indent |-> indent, inode |-> inode, mode |-> modestring(mode), kind |-> kind,
   named |-> FALSE, name |-> <<>>, beg |-> 0, end |-> 0, size |-> 0,
   target |-> <<>>, count |-> 0]

RECURSIVE dump_entry(_, _, _, _, _)
RECURSIVE dump_dir(_, _, _, _, _, _)

\* acc: the items written so far, the icb calls so far, and whether a table
\* was read out of bounds
dump_entry(m, chunk_index_offset, indent, e, acc) ==
  IF ~(InTable(m.modes, At(m.entries, e).mode)
       /\ InTable(m.names, At(m.entries, e).name_index))
    THEN [acc EXCEPT !.undefined = TRUE]
  ELSE
  LET mode == entry_mode(m, e)
      inode == At(m.entries, e).inode
      head == IF inode > 0
                THEN [Item(indent, inode, mode, "unknown") EXCEPT
                        !.named = TRUE, !.name = entry_name(m, e)]
                ELSE Item(indent, inode, mode, "unknown")
  IN IF S_ISREG(mode)
       THEN IF ~file_size_in_bounds(m, chunk_index_offset, e)
              THEN [acc EXCEPT !.undefined = TRUE]
              ELSE [acc EXCEPT
                      !.os = Append(@, [head EXCEPT
                               !.kind = "reg",
                               !.beg = At(m.chunk_index, inode - chunk_index_offset),
                               !.end = At(m.chunk_index, inode - chunk_index_offset + 1),
                               !.size = file_size(m, chunk_index_offset, e, mode)]),
                      !.icb = Append(@, <<indent + INDENT_STEP, inode>>)]
     ELSE IF S_ISDIR(mode)
       THEN IF ~InTable(m.directories, inode)
              THEN [acc EXCEPT !.undefined = TRUE]
              ELSE LET dir == At(m.directories, inode)
                   IN dump_dir(m, chunk_index_offset, indent + INDENT_STEP, dir, 0,
                               [acc EXCEPT !.os = Append(@, [head EXCEPT
                                                    !.kind = "dir",
                                                    !.count = dir.entry_count])])
     ELSE IF S_ISLNK(mode)
       THEN IF ~file_size_in_bounds(m, chunk_index_offset, e)
              THEN [acc EXCEPT !.undefined = TRUE]
              ELSE [acc EXCEPT !.os = Append(@, [head EXCEPT
                                        !.kind = "lnk", !.target = link_name(m, e)])]
     ELSE [acc EXCEPT !.os = Append(@, head)]

\* the for loop over the children of a directory, from child i on
dump_dir(m, chunk_index_offset, indent, dir, i, acc) ==
  IF acc.undefined THEN acc
  ELSE IF i < dir.entry_count
    THEN IF ~InTable(m.entries, dir.first_entry + i)
           THEN [acc EXCEPT !.undefined = TRUE]
           ELSE dump_dir(m, chunk_index_offset, indent, dir, i + 1,
                         dump_entry(m, chunk_index_offset, indent, dir.first_entry + i, acc))
    ELSE acc

dump(m, chunk_index_offset, root) ==
  dump_entry(m, chunk_index_offset, 0, root,
             [os |-> <<>>, icb |-> <<>>, undefined |-> FALSE])

----------------------------------------------------------------------------
(* The state machine: construction, then any sequence of public calls      *)

\* the second reader holds no result
NoSecond == [handle |-> "none", call |-> [op |-> "none"]]
NotRendered(mode) == [mode |-> mode, str |-> <<>>, done |-> FALSE]

NoTraversal ==
  [op |-> "none", status |-> "idle", pending |-> -1, stack |-> <<>>, out |-> <<>>]

\* the command line of a run and what its environment holds
NoArgs ==
  [help |-> FALSE, input |-> FALSE, output |-> FALSE, level |-> 0,
   order |-> "similarity", have_lua |-> FALSE, script |-> "absent",
   invalid |-> "none", recompress |-> FALSE]

NotStarted(args) ==
  [args |-> args, pc |-> "start", script |-> FALSE, thrown |-> FALSE,
   output_opened |-> FALSE, errors |-> 0, exit |-> -1]

InitElsewhere ==
  /\ second = NoSecond
  /\ rendered = NotRendered(0)
  /\ trav = NoTraversal
  /\ mk = NotStarted(NoArgs)

InitObject ==
  /\ opened = FALSE
  /\ meta_ = NoMeta
  /\ root_ = 0
  /\ inode_offset_ = 0
  /\ chunk_index_offset_ = 0
  /\ call = [op |-> "none"]
  /\ rv = None
  /\ stbuf = ZeroStat
  /\ getdirs = <<>>
  /\ visited = <<>>
  /\ os = <<>>
  /\ given = [buf |-> NoMeta, off |-> 0]

Init == InitObject /\ InitElsewhere

\* no call has returned a result that the caller still holds
Idle == call.op = "none"

\* metadata_v2_::metadata_v2_: map the buffer, cache the root and the offsets.
\* mapFrozen gives typed views of the tables of the buffer; nothing in the
\* constructor looks at the values the tables hold.
Open(buf, off) ==
  /\ ~opened
  /\ opened' = TRUE
  /\ meta_' = buf
  /\ root_' = At(buf.entry_index, 0)
  /\ inode_offset_' = off
  /\ chunk_index_offset_' = buf.chunk_index_offset
  /\ call' = [op |-> "none"]
  /\ rv' = None
  /\ stbuf' = ZeroStat
  /\ getdirs' = <<>>
  /\ visited' = <<>>
  /\ os' = <<>>
  /\ given' = [buf |-> buf, off |-> off]
  /\ UNCHANGED elsewhere

FindPath(path) ==
  /\ opened
  /\ Idle
  /\ LET r == find_path(meta_, root_, path)
     IN /\ rv' \in Outcomes(meta_, r.rv)
        /\ getdirs' = r.dirs
  /\ call' = [op |-> "find_path", path |-> path]
  /\ stbuf' = ZeroStat
  /\ visited' = <<>>
  /\ os' = <<>>
  /\ UNCHANGED <<opened, meta_, root_, inode_offset_, chunk_index_offset_>>
  /\ UNCHANGED <<given, elsewhere>>

FindInode(i) ==
  /\ opened
  /\ Idle
  /\ rv' \in Outcomes(meta_, find_inode(meta_, inode_offset_, i))
  /\ call' = [op |-> "find_inode", inode |-> i]
  /\ getdirs' = <<>>
  /\ stbuf' = ZeroStat
  /\ visited' = <<>>
  /\ os' = <<>>
  /\ UNCHANGED <<opened, meta_, root_, inode_offset_, chunk_index_offset_>>
  /\ UNCHANGED <<given, elsewhere>>

FindChild(i, name) ==
  /\ opened
  /\ Idle
  /\ LET r == find_child(meta_, inode_offset_, i, name)
     IN /\ rv' \in Outcomes(meta_, r.rv)
        /\ getdirs' = r.dirs
  /\ call' = [op |-> "find_child", inode |-> i, name |-> name]
  /\ stbuf' = ZeroStat
  /\ visited' = <<>>
  /\ os' = <<>>
  /\ UNCHANGED <<opened, meta_, root_, inode_offset_, chunk_index_offset_>>
  /\ UNCHANGED <<given, elsewhere>>

\* entry is an entry_view the caller holds: any entry of the entries table
Getattr(e) ==
  /\ opened
  /\ Idle
  /\ InTable(meta_.entries, e)
  /\ IF file_size_in_bounds(meta_, chunk_index_offset_, e)
       THEN /\ stbuf' = getattr(meta_, inode_offset_, chunk_index_offset_, e)
            /\ rv' = Returned(0)
       ELSE /\ stbuf' = ZeroStat
            /\ rv' \in {Crash, Returned(0)}
  /\ call' = [op |-> "getattr", entry |-> e]
  /\ getdirs' = <<>>
  /\ visited' = <<>>
  /\ os' = <<>>
  /\ UNCHANGED <<opened, meta_, root_, inode_offset_, chunk_index_offset_>>
  /\ UNCHANGED <<given, elsewhere>>

Walk ==
  /\ opened
  /\ Idle
  /\ LET acc == walk(meta_, root_)
     IN /\ visited' = acc.visited
        /\ rv' \in IF acc.undefined THEN {Crash, Returned(0)} ELSE {Returned(0)}
  /\ call' = [op |-> "walk"]
  /\ getdirs' = <<>>
  /\ stbuf' = ZeroStat
  /\ os' = <<>>
  /\ UNCHANGED <<opened, meta_, root_, inode_offset_, chunk_index_offset_>>
  /\ UNCHANGED <<given, elsewhere>>

\* dump(os, icb): dump(os, "", root_, icb)
Dump ==
  /\ opened
  /\ Idle
  /\ LET acc == dump(meta_, chunk_index_offset_, root_)
     IN /\ os' = acc.os
        /\ rv' \in IF acc.undefined THEN {Crash, Returned(0)} ELSE {Returned(0)}
  /\ call' = [op |-> "dump"]
  /\ getdirs' = <<>>
  /\ stbuf' = ZeroStat
  /\ visited' = <<>>
  /\ UNCHANGED <<opened, meta_, root_, inode_offset_, chunk_index_offset_>>
  /\ UNCHANGED <<given, elsewhere>>

\* the caller lets go of the result of the completed call (the optional, the
\* stat buffer and the visitor's record are the caller's locals)
Discard ==
  /\ opened
  /\ ~Idle
  /\ call' = [op |-> "none"]
  /\ rv' = None
  /\ stbuf' = ZeroStat
  /\ getdirs' = <<>>
  /\ visited' = <<>>
  /\ os' = <<>>
  /\ UNCHANGED <<opened, meta_, root_, inode_offset_, chunk_index_offset_>>
  /\ UNCHANGED <<given, elsewhere>>

Next ==
  \/ \E buf \in Buffers, off \in InodeOffsets : Open(buf, off)
  \/ \E path \in Paths : FindPath(path)
  \/ \E i \in InodeArgs : FindInode(i)
  \/ \E i \in InodeArgs, name \in NameArgs : FindChild(i, name)
  \/ \E e \in 0..(Len(meta_.entries) - 1) : Getattr(e)
  \/ Walk
  \/ Dump
  \/ Discard

Spec == Init /\ [][Next]_vars

----------------------------------------------------------------------------
(* Several readers: a second reader calls the same const operations, on    *)
(* the same object or on a second object constructed on the same buffer,   *)
(* while the first reader holds or awaits its own result                   *)

MaxReaderPathLen == 3   \* paths the two readers give to find(path)
MaxReaderNameLen == 1   \* names the two readers give to find(inode, name)
MaxReaderInode == 2     \* inodes the two readers give are -1..MaxReaderInode

ReaderPaths == SeqsUpTo(PathBytes, MaxReaderPathLen)
ReaderNames == SeqsUpTo({97, 98}, MaxReaderNameLen)
ReaderInodes == -1..MaxReaderInode

\* the data members the constructor leaves behind
Constructed(buf, off) ==
  [meta_ |-> buf, root_ |-> At(buf.entry_index, 0), inode_offset_ |-> off,
   chunk_index_offset_ |-> buf.chunk_index_offset]

\* the object the first reader calls
ThisObject ==
  [meta_ |-> meta_, root_ |-> root_, inode_offset_ |-> inode_offset_,
   chunk_index_offset_ |-> chunk_index_offset_]

Out(r, st, vis, o) == [rv |-> r, stbuf |-> st, visited |-> vis, os |-> o]

ReaderQueries(h) ==
  {[op |-> "find_path", path |-> p] : p \in ReaderPaths}
  \cup {[op |-> "find_inode", inode |-> i] : i \in ReaderInodes}
  \cup {[op |-> "find_child", inode |-> i, name |-> n] : i \in ReaderInodes, n \in ReaderNames}
  \cup {[op |-> "getattr", entry |-> e] : e \in 0..(Len(h.meta_.entries) - 1)}
  \cup {[op |-> "walk"], [op |-> "dump"]}

\* what the const operation q can return when called on object h
Answers(h, q) ==
  IF q.op = "find_path"
    THEN {Out(r, ZeroStat, <<>>, <<>>) :
            r \in Outcomes(h.meta_, find_path(h.meta_, h.root_, q.path).rv)}
  ELSE IF q.op = "find_inode"
    THEN {Out(r, ZeroStat, <<>>, <<>>) :
            r \in Outcomes(h.meta_, find_inode(h.meta_, h.inode_offset_, q.inode))}
  ELSE IF q.op = "find_child"
    THEN {Out(r, ZeroStat, <<>>, <<>>) :
            r \in Outcomes(h.meta_, find_child(h.meta_, h.inode_offset_, q.inode, q.name).rv)}
  ELSE IF q.op = "getattr"
    THEN IF file_size_in_bounds(h.meta_, h.chunk_index_offset_, q.entry)
           THEN {Out(Returned(0),
                     getattr(h.meta_, h.inode_offset_, h.chunk_index_offset_, q.entry),
                     <<>>, <<>>)}
           ELSE {Out(r, ZeroStat, <<>>, <<>>) : r \in {Crash, Returned(0)}}
  ELSE IF q.op = "walk"
    THEN LET acc == walk(h.meta_, h.root_)
         IN {Out(r, ZeroStat, acc.visited, <<>>) :
               r \in IF acc.undefined THEN {Crash, Returned(0)} ELSE {Returned(0)}}
  ELSE LET acc == dump(h.meta_, h.chunk_index_offset_, h.root_)
       IN {Out(r, ZeroStat, <<>>, acc.os) :
             r \in IF acc.undefined THEN {Crash, Returned(0)} ELSE {Returned(0)}}

\* the second reader calls q on the first reader's object
SecondCallsSame(q) ==
  /\ opened
  /\ second.call.op = "none"
  /\ \E a \in Answers(ThisObject, q) :
       second' = [handle |-> "same", call |-> q, out |-> a]
  /\ UNCHANGED <<opened, meta_, root_, inode_offset_, chunk_index_offset_,
                 call, rv, stbuf, getdirs, visited, os, given>>
  /\ UNCHANGED <<rendered, trav, mk>>

\* the second reader calls q on an object of its own, constructed on the
\* buffer and inode offset the first object was constructed on
SecondCallsTwin(q) ==
  /\ opened
  /\ second.call.op = "none"
  /\ \E a \in Answers(Constructed(given.buf, given.off), q) :
       second' = [handle |-> "twin", call |-> q, out |-> a]
  /\ UNCHANGED <<opened, meta_, root_, inode_offset_, chunk_index_offset_,
                 call, rv, stbuf, getdirs, visited, os, given>>
  /\ UNCHANGED <<rendered, trav, mk>>

SecondDiscard ==
  /\ opened
  /\ second.call.op # "none"
  /\ second' = NoSecond
  /\ UNCHANGED <<opened, meta_, root_, inode_offset_, chunk_index_offset_,
                 call, rv, stbuf, getdirs, visited, os, given>>
  /\ UNCHANGED <<rendered, trav, mk>>

NextReaders ==
  \/ \E buf \in Buffers, off \in InodeOffsets : Open(buf, off)
  \/ \E path \in ReaderPaths : FindPath(path)
  \/ \E i \in ReaderInodes : FindInode(i)
  \/ \E i \in ReaderInodes, name \in ReaderNames : FindChild(i, name)
  \/ \E e \in 0..(Len(meta_.entries) - 1) : Getattr(e)
  \/ Walk
  \/ Dump
  \/ Discard
  \/ \E q \in ReaderQueries(ThisObject) : SecondCallsSame(q)
  \/ \E q \in ReaderQueries(ThisObject) : SecondCallsTwin(q)
  \/ SecondDiscard

SpecReaders == Init /\ [][NextReaders]_vars

----------------------------------------------------------------------------
(* modestring on its own: every uint16_t mode word is rendered once *)

ModeWords == 0..UINT16_MAX

InitModestring ==
  /\ InitObject
  /\ second = NoSecond
  /\ rendered \in {NotRendered(mode) : mode \in ModeWords}
  /\ trav = NoTraversal
  /\ mk = NotStarted(NoArgs)

Render ==
  /\ ~rendered.done
  /\ rendered' = [mode |-> rendered.mode, str |-> modestring(rendered.mode),
                  done |-> TRUE]
  /\ UNCHANGED <<opened, meta_, root_, inode_offset_, chunk_index_offset_,
                 call, rv, stbuf, getdirs, visited, os, given, second, trav, mk>>

NextModestring == Render

SpecModestring == InitModestring /\ [][NextModestring]_vars

----------------------------------------------------------------------------
(* walk and dump step by step: one step per call of walk(entry, func) or   *)
(* dump(os, indent, entry, icb), per iteration of the loop over the        *)
(* children and per return                                                 *)

MaxDepth == 4    \* nested calls of walk(entry) / dump(entry) at one time
MaxSteps == 8    \* visitor calls or entry lines of one walk or dump

\*  /            inode 0
\*    a/         inode 1; its child range is its own position
CyclicRecord ==
  [ entries |-> << Entry(0, 0, 0), Entry(1, 0, 1) >>,
    names |-> << <<>>, NAME_a >>,
    modes |-> <<MODE_DIR>>,
    directories |-> <<Dir(1, 1), Dir(1, 1)>>,
    entry_index |-> <<0, 1>>,
    chunk_index |-> <<0>>,
    chunks |-> <<>>,
    link_index |-> <<>>,
    links |-> <<>>,
    chunk_index_offset |-> 2,
    link_index_offset |-> 2 ]

TraversalBuffers == Buffers \cup {CyclicRecord}

\* cur++ without the increment
next_child_Stay(cur) == cur

\* cur++ of the while loop of walk, ++i of the for loop of dump
next_child(cur) == cur + 1

\* the test that guards the loop over the children
descends(m, op, e) ==
  IF op = "walk" THEN S_ISDIR(At(m.entries, e).mode) ELSE S_ISDIR(entry_mode(m, e))

\* the reads of one call before it tests for a directory stay inside the tables
entry_in_bounds(m, chunk_index_offset, op, e) ==
  \/ op = "walk"
  \/ /\ InTable(m.modes, At(m.entries, e).mode)
     /\ InTable(m.names, At(m.entries, e).name_index)
     /\ file_size_in_bounds(m, chunk_index_offset, e)

\* a traversal that read outside a table: it may end, crash or never end
TraversalUndefined(t) ==
  {[t EXCEPT !.status = s, !.pending = -1] : s \in {"done", "crashed", "hung"}}

\* what the running traversal t does next
traversal_step(m, chunk_index_offset, t) ==
  IF t.pending >= 0
    THEN \* walk(entry, func) or dump(os, indent, entry, icb) is entered
      LET e == t.pending
          t1 == [t EXCEPT !.out = Append(@, e), !.pending = -1]
      IN IF ~entry_in_bounds(m, chunk_index_offset, t.op, e)
           THEN TraversalUndefined(t)
         ELSE IF descends(m, t.op, e)
           THEN IF ~getdir_in_bounds(m, e)
                  THEN TraversalUndefined(t1)
                  ELSE LET dir == getdir(m, e)
                       IN {[t1 EXCEPT !.stack =
                              Append(@, [cur |-> dir.first_entry,
                                         end |-> dir.first_entry + dir.entry_count])]}
         ELSE {t1}
  ELSE IF t.stack = <<>>
    THEN {[t EXCEPT !.status = "done"]}
  ELSE LET top == t.stack[Len(t.stack)]
       IN IF top.cur < top.end
            THEN IF ~InTable(m.entries, top.cur)
                   THEN TraversalUndefined(t)
                   ELSE {[t EXCEPT !.pending = top.cur,
                                   !.stack[Len(t.stack)].cur = next_child(top.cur)]}
            ELSE {[t EXCEPT !.stack = SubSeq(@, 1, Len(@) - 1)]}

\* walk(func) or dump(os, icb) is called
TraversalBegin(op) ==
  /\ opened
  /\ Idle
  /\ trav.status = "idle"
  /\ LET t == [NoTraversal EXCEPT !.op = op, !.status = "running"]
     IN IF InTable(meta_.entries, root_)
          THEN trav' = [t EXCEPT !.pending = root_]
          ELSE trav' \in TraversalUndefined(t)
  /\ UNCHANGED <<opened, meta_, root_, inode_offset_, chunk_index_offset_,
                 call, rv, stbuf, getdirs, visited, os, given, second, rendered, mk>>

TraversalStep ==
  /\ trav.status = "running"
  /\ trav.pending >= 0 => Len(trav.out) < MaxSteps /\ Len(trav.stack) < MaxDepth
  /\ trav' \in traversal_step(meta_, chunk_index_offset_, trav)
  /\ UNCHANGED <<opened, meta_, root_, inode_offset_, chunk_index_offset_,
                 call, rv, stbuf, getdirs, visited, os, given, second, rendered, mk>>

\* the caller takes the result of the finished walk or dump
TraversalEnd ==
  /\ trav.status = "done"
  /\ trav' = NoTraversal
  /\ UNCHANGED <<opened, meta_, root_, inode_offset_, chunk_index_offset_,
                 call, rv, stbuf, getdirs, visited, os, given, second, rendered, mk>>

NextTraversal ==
  \/ \E buf \in TraversalBuffers, off \in InodeOffsets : Open(buf, off)
  \/ TraversalBegin("walk")
  \/ TraversalBegin("dump")
  \/ TraversalStep
  \/ TraversalEnd

\* a call that has been entered keeps executing
SpecTraversal == Init /\ [][NextTraversal]_vars /\ WF_vars(TraversalStep)

----------------------------------------------------------------------------
(* mkdwarfs: one run of main, from the parsed command line to the exit     *)
(* status                                                                  *)

LEVELS_SIZE == 10     \* levels.size()
MaxLevel == 11        \* --compress-level values given are 0..MaxLevel
MaxErrors == 2        \* prog.errors after the scan is 0..MaxErrors

Orders == {"none", "path", "script", "similarity"}

\* --script: no path given and no default script found, a path whose script
\* lua_script cannot load, a path whose script it loads
Scripts == {"absent", "throws", "loaded"}

\* an option value that is rejected: by the option parser, by the size,
\* window-size, log-level or time conversions, by block_compressor
Invalids == {"none", "parse", "convert", "compression"}

Args ==
  [help : BOOLEAN, input : BOOLEAN, output : BOOLEAN, level : 0..MaxLevel,
   order : Orders, have_lua : BOOLEAN, script : Scripts,
   invalid : Invalids, recompress : BOOLEAN]

\* level >= levels.size() with <= in its place
level_in_range_Inclusive(level) == level <= LEVELS_SIZE

\* the negation of level >= levels.size()
level_in_range(level) == level < LEVELS_SIZE

Throw(m) == [m EXCEPT !.thrown = TRUE, !.pc = "thrown"]
ReturnStatus(m, status) == [m EXCEPT !.exit = status, !.pc = "exited"]

InitMkdwarfs ==
  /\ InitObject
  /\ second = NoSecond
  /\ rendered = NotRendered(0)
  /\ trav = NoTraversal
  /\ mk \in {NotStarted(args) : args \in Args}

MkUnchanged ==
  UNCHANGED <<opened, meta_, root_, inode_offset_, chunk_index_offset_,
              call, rv, stbuf, getdirs, visited, os, given, second, rendered, trav>>

\* po::store, po::notify; validate() rejects an order that is not in
\* order_choices, and "script" is in it only with DWARFS_HAVE_LUA
MkParse ==
  /\ mk.pc = "start"
  /\ mk' = IF mk.args.invalid = "parse"
               \/ (mk.args.order = "script" /\ ~mk.args.have_lua)
             THEN Throw(mk)
             ELSE [mk EXCEPT !.pc = "parsed"]
  /\ MkUnchanged

\* the usage text
MkHelp ==
  /\ mk.pc = "parsed"
  /\ mk.args.help \/ ~mk.args.input \/ ~mk.args.output
  /\ mk' = ReturnStatus(mk, 0)
  /\ MkUnchanged

\* the level check and the defaults of the level
MkLevel ==
  /\ mk.pc = "parsed"
  /\ ~(mk.args.help \/ ~mk.args.input \/ ~mk.args.output)
  /\ mk' = IF ~level_in_range(mk.args.level)
             THEN Throw(mk)
             ELSE [mk EXCEPT !.pc = "defaults"]
  /\ MkUnchanged

\* parse_size_with_unit, the window sizes, the worker groups, the logger
MkConvert ==
  /\ mk.pc = "defaults"
  /\ mk' = IF mk.args.invalid = "convert"
             THEN Throw(mk)
             ELSE [mk EXCEPT !.pc = "logger"]
  /\ MkUnchanged

\* the script is loaded when a path is there, then --order=script is checked
MkScript ==
  /\ mk.pc = "logger"
  /\ mk' = IF mk.args.have_lua /\ mk.args.script = "throws"
             THEN Throw(mk)
           ELSE LET script == mk.args.have_lua /\ mk.args.script = "loaded"
                IN IF mk.args.order = "script" /\ ~script
                     THEN Throw(mk)
                     ELSE [mk EXCEPT !.script = script, !.pc = "checked"]
  /\ MkUnchanged

\* owner, group, time, progress and the three block_compressor objects
MkCompressors ==
  /\ mk.pc = "checked"
  /\ mk' = IF mk.args.invalid = "compression"
             THEN Throw(mk)
             ELSE [mk EXCEPT !.pc = "compressors"]
  /\ MkUnchanged

\* std::ofstream ofs(output) and the filesystem_writer on it
MkOpenOutput ==
  /\ mk.pc = "compressors"
  /\ mk' = [mk EXCEPT !.output_opened = TRUE, !.pc = "writer"]
  /\ MkUnchanged

\* filesystem_v2::rewrite or scanner::scan: it counts errors in prog.errors
\* or throws
MkWrite ==
  /\ mk.pc = "writer"
  /\ \E n \in 0..MaxErrors :
       \/ mk' = [mk EXCEPT !.errors = n, !.pc = "written"]
       \/ mk' = Throw([mk EXCEPT !.errors = n])
  /\ MkUnchanged

\* return prog.errors > 0
MkReturn ==
  /\ mk.pc = "written"
  /\ mk' = ReturnStatus(mk, IF mk.errors > 0 THEN 1 ELSE 0)
  /\ MkUnchanged

\* the catch of main
MkCatch ==
  /\ mk.pc = "thrown"
  /\ mk' = ReturnStatus(mk, 1)
  /\ MkUnchanged

NextMkdwarfs ==
  \/ MkParse
  \/ MkHelp
  \/ MkLevel
  \/ MkConvert
  \/ MkScript
  \/ MkCompressors
  \/ MkOpenOutput
  \/ MkWrite
  \/ MkReturn
  \/ MkCatch

SpecMkdwarfs == InitMkdwarfs /\ [][NextMkdwarfs]_vars

----------------------------------------------------------------------------
(* The data model of the specification: well-formed records, the children  *)
(* of a directory, and what a name or a path denotes in the tree           *)

IsDirectory(m, e) == S_ISDIR(entry_mode(m, e))
IsRegular(m, e) == S_ISREG(entry_mode(m, e))
IsSymlink(m, e) == S_ISLNK(entry_mode(m, e))

Positions(m) == 0..(Len(m.entries) - 1)

\* invariants 1 to 4 of the data model
WellFormed(m) ==
  /\ Len(m.entry_index) > 0
  /\ \A i \in 0..(Len(m.entry_index) - 1) : InTable(m.entries, At(m.entry_index, i))
  /\ \A e \in Positions(m) :
       /\ InTable(m.names, At(m.entries, e).name_index)
       /\ InTable(m.modes, At(m.entries, e).mode)
       /\ At(m.entries, e).inode >= 0
  /\ \A e \in Positions(m) :
       /\ file_size_in_bounds(m, m.chunk_index_offset, e)
       /\ IsRegular(m, e) =>
            At(m.chunk_index, At(m.entries, e).inode - m.chunk_index_offset + 1)
              >= At(m.chunk_index, At(m.entries, e).inode - m.chunk_index_offset)
       /\ IsDirectory(m, e) =>
            /\ InTable(m.directories, At(m.entries, e).inode)
            /\ LET d == getdir(m, e)
               IN /\ d.first_entry >= 0 /\ d.entry_count >= 0
                  /\ d.first_entry + d.entry_count <= Len(m.entries)
                  /\ \A i, j \in d.first_entry..(d.first_entry + d.entry_count - 1) :
                       i < j => compare(entry_name(m, i), entry_name(m, j)) < 0
  /\ IsDirectory(m, At(m.entry_index, 0))

\* the child range of directory entry d
Children(m, d) ==
  LET dir == getdir(m, d)
  IN dir.first_entry..(dir.first_entry + dir.entry_count - 1)

\* the children of d that carry the name
Named(m, d, name) == {c \in Children(m, d) : entry_name(m, c) = name}

\* the entries reachable from the entries of S through child ranges
RECURSIVE ReachableFrom(_, _)
ReachableFrom(m, S) ==
  LET T == S \cup UNION {Children(m, d) : d \in {e \in S : IsDirectory(m, e)}}
  IN IF T = S THEN S ELSE ReachableFrom(m, T)

Reachable(m, root) == ReachableFrom(m, {root})

\* the non-empty segments of a path, in order
RECURSIVE Segments(_)
Segments(path) ==
  IF path = <<>> THEN <<>>
  ELSE LET next == strchr(path, SLASH, 0)
           clen == IF next >= 0 THEN next ELSE Len(path)
           rest == IF next >= 0 THEN SubSeq(path, next + 2, Len(path)) ELSE <<>>
       IN IF clen = 0 THEN Segments(rest)
          ELSE <<SubSeq(path, 1, clen)>> \o Segments(rest)

\* the segments joined by single slashes, nothing before or after
RECURSIVE Join(_)
Join(segs) ==
  IF segs = <<>> THEN <<>>
  ELSE IF Len(segs) = 1 THEN Head(segs)
  ELSE Head(segs) \o <<SLASH>> \o Join(Tail(segs))

Canonical(path) == Join(Segments(path))

\* the entry the segments denote below entry e: Some, or None when a segment
\* names no child or the entry it is looked up in is not a directory
RECURSIVE Denotes(_, _, _)
Denotes(m, e, segs) ==
  IF segs = <<>> THEN Some(e)
  ELSE IF ~IsDirectory(m, e) THEN None
  ELSE LET cs == Named(m, e, Head(segs))
       IN IF cs = {} THEN None
          ELSE Denotes(m, CHOOSE c \in cs : TRUE, Tail(segs))

\* some segment of the path is to be looked up in an entry that is no directory
HitsNonDirectory(m, root, path) ==
  LET segs == Segments(path)
  IN \E k \in 1..(Len(segs) - 1) :
       LET r == Denotes(m, root, SubSeq(segs, 1, k))
       IN r.kind = "some" /\ ~IsDirectory(m, r.pos)

\* the path made of the names on the route from the root down to each entry
RECURSIVE RoutesBelow(_, _, _)
RoutesBelow(m, e, path) ==
  {[entry |-> e, path |-> path]} \cup
  (IF IsDirectory(m, e)
     THEN UNION {RoutesBelow(m, c, path \o <<SLASH>> \o entry_name(m, c)) : c \in Children(m, e)}
     ELSE {})

Routes(m, root) == RoutesBelow(m, root, <<>>)

----------------------------------------------------------------------------
(* Claims *)

\* C1: on a well-formed record, find(inode of directory d, name) returns
\* exactly the child of d that carries the name, whatever its position in the
\* child range, and not-found when no child of d carries the name.
C1_LookupAgreesWithChildren ==
  (/\ call.op = "find_child"
   /\ WellFormed(meta_)
   /\ get_entry(meta_, inode_offset_, call.inode).kind = "some"
   /\ IsDirectory(meta_, get_entry(meta_, inode_offset_, call.inode).pos))
  => LET d == get_entry(meta_, inode_offset_, call.inode).pos
     IN /\ \A c \in Named(meta_, d, call.name) : rv = Some(c)
        /\ Named(meta_, d, call.name) = {} => rv = None

\* C2: on a well-formed record, walk hands every entry reachable from the
\* root to the visitor exactly once, and the number of visitor calls is the
\* number of entries in the entry-index.
C2_WalkVisitsEveryEntry ==
  (call.op = "walk" /\ WellFormed(meta_))
  => /\ Len(visited) = Len(meta_.entry_index)
     /\ \A e \in Reachable(meta_, root_) :
          Cardinality({i \in DOMAIN visited : visited[i] = e}) = 1

\* C3: find(path) skips empty segments: the result for a path is the result
\* for its non-empty segments joined by single slashes, whatever runs of
\* slashes separate, precede or follow them.
C3_EmptySegmentsSkipped ==
  (call.op = "find_path" /\ WellFormed(meta_))
  => rv = find_path(meta_, root_, Canonical(call.path)).rv

\* C4: when find(path) has a non-empty segment left to resolve in an entry
\* that is not a directory, the result is not-found and getdir is never handed
\* a non-directory entry.
C4_NonDirectoryInPathIsNotFound ==
  (/\ call.op = "find_path"
   /\ WellFormed(meta_)
   /\ HitsNonDirectory(meta_, root_, call.path))
  => /\ rv = None
     /\ \A i \in DOMAIN getdirs : IsDirectory(meta_, getdirs[i])

\* C5: on a well-formed record, for every entry e reachable from the root,
\* find(path) of the names on the route from the root to e, joined by slashes,
\* returns e.
C5_PathWalkInvertible ==
  (call.op = "find_path" /\ WellFormed(meta_))
  => \A r \in Routes(meta_, root_) : r.path = call.path => rv = Some(r.entry)

\* C6: the constructor rejects a buffer in which the child range of some
\* directory runs past the end of the entries table: no object is constructed
\* on such a buffer.
C6_OpenRejectsMalformed ==
  opened => \A i \in 1..Len(meta_.directories) :
              meta_.directories[i].first_entry + meta_.directories[i].entry_count
                <= Len(meta_.entries)

\* C7: find(inode) returns entries[entry_index[inode - inode_offset]] when
\* 0 <= inode - inode_offset < size of the entry-index and not-found otherwise;
\* find(inode_offset) is the root entry and find(-1) is not-found (inode
\* offsets are the non-negative offsets a host rebases the inode space by).
C7_FindByInode ==
  call.op = "find_inode"
  => LET k == call.inode - inode_offset_
     IN /\ (k >= 0 /\ k < Len(meta_.entry_index)) => rv = Some(meta_.entry_index[k + 1])
        /\ (k < 0 \/ k >= Len(meta_.entry_index)) => rv = None
        /\ call.inode = inode_offset_ => rv = Some(root_)
        /\ call.inode = -1 => rv = None

\* an inode in range and one past the end have been looked up under a
\* non-zero inode offset
C7_Witness ==
  /\ call.op = "find_inode"
  /\ inode_offset_ > 0
  /\ call.inode - inode_offset_ = Len(meta_.entry_index) - 1
  /\ Len(meta_.entry_index) > 1
  /\ rv.kind = "some"
  /\ rv.pos # call.inode - inode_offset_

\* the size the data model gives an entry: the sizes of the chunks in the
\* chunk range of a regular file, the length of the target of a symlink, 0 for
\* anything else
RECURSIVE SumSizes(_, _)
SumSizes(m, J) ==
  IF J = {} THEN 0
  ELSE LET j == CHOOSE x \in J : TRUE
       IN m.chunks[j + 1].size + SumSizes(m, J \ {j})

SizeLaw(m, e) ==
  LET inode == m.entries[e + 1].inode
      i == inode - m.chunk_index_offset
  IN IF IsRegular(m, e)
       THEN SumSizes(m, {j \in 0..(Len(m.chunks) - 1) :
                           j >= m.chunk_index[i + 1] /\ j < m.chunk_index[i + 2]})
     ELSE IF IsSymlink(m, e)
       THEN Len(m.links[m.link_index[inode + 1] - m.link_index_offset + 1])
     ELSE 0

\* C8: the size getattr reports and dump prints for an entry is the sum of
\* the sizes of the chunks in the chunk range of a regular file (0 for an
\* empty range), the byte length of the link target of a symlink, and 0 for a
\* directory or any other type.
C8_SizeLaw ==
  /\ (call.op = "getattr" /\ file_size_in_bounds(meta_, chunk_index_offset_, call.entry))
     => stbuf.st_size = SizeLaw(meta_, call.entry)
  /\ (call.op = "dump" /\ WellFormed(meta_))
     => \A k \in DOMAIN os :
          os[k].kind = "reg" => os[k].size = SizeLaw(meta_, At(meta_.entry_index, os[k].inode))

\* getattr has sized a symlink by its target
C8_Witness ==
  /\ call.op = "getattr"
  /\ IsSymlink(meta_, call.entry)
  /\ stbuf.st_size = 4
  /\ link_name(meta_, call.entry) = <<46, 46, SLASH, 97>>

Bit(x, k) == (x \div (2 ^ k)) % 2

WriteBits == {k \in 0..15 : 2 ^ k \in {S_IWUSR, S_IWGRP, S_IWOTH}}

\* C9: the mode getattr reports is the stored mode word with exactly the
\* three write bits cleared and every other bit kept, and the call leaves the
\* modes table as it was.
C9_MaskLaw ==
  [][call'.op = "getattr"
     => /\ meta_'.modes = meta_.modes
        /\ LET stored == meta_.modes[meta_.entries[call'.entry + 1].mode + 1]
           IN /\ stbuf'.st_mode \in 0..UINT16_MAX
              /\ \A k \in 0..15 :
                   Bit(stbuf'.st_mode, k) = IF k \in WriteBits THEN 0 ELSE Bit(stored, k)]_vars

\* getattr has reported a mode whose stored word carries all three write bits
\* and the setuid bit
C9_Witness ==
  /\ call.op = "getattr"
  /\ LET stored == entry_mode(meta_, call.entry)
     IN /\ \A k \in WriteBits : Bit(stored, k) = 1
        /\ BitAnd(stored, S_ISUID) # 0
        /\ stbuf.st_mode = stored - S_IWUSR - S_IWGRP - S_IWOTH

\* C10: getattr returns 0 and reports ino = inode + inode_offset, the size of
\* the entry, and blocks = ceil(size / 512): the least number of 512-byte
\* blocks that hold size bytes (17 blocks for 8209 bytes, 0 for 0).
C10_GetattrInoSizeBlocks ==
  (call.op = "getattr" /\ file_size_in_bounds(meta_, chunk_index_offset_, call.entry))
  => /\ rv = Returned(0)
     /\ stbuf.st_ino = meta_.entries[call.entry + 1].inode + inode_offset_
     /\ stbuf.st_size = SizeLaw(meta_, call.entry)
     /\ stbuf.st_blocks >= 0
     /\ stbuf.st_blocks * 512 >= stbuf.st_size
     /\ (stbuf.st_blocks - 1) * 512 < stbuf.st_size
     /\ stbuf.st_size = 0 => stbuf.st_blocks = 0
     /\ stbuf.st_size = 8209 => stbuf.st_blocks = 17

\* getattr has reported the file of 4096 + 4096 + 17 bytes under a non-zero
\* inode offset
C10_Witness ==
  /\ call.op = "getattr"
  /\ inode_offset_ > 0
  /\ stbuf.st_size = 8209
  /\ stbuf.st_blocks = 17
  /\ stbuf.st_ino = meta_.entries[call.entry + 1].inode + inode_offset_

C12_FindChildSafe ==
  (call.op = "find_child" /\ WellFormed(meta_))
  => LET entry == get_entry(meta_, inode_offset_, call.inode)
     IN /\ rv # Crash
        /\ \A k \in DOMAIN getdirs :
             /\ IsDirectory(meta_, getdirs[k])
             /\ getdir_in_bounds(meta_, getdirs[k])
        /\ entry = None => rv = None
        /\ (entry # None /\ ~IsDirectory(meta_, entry.pos)) => rv = None

\* the entries below directory entry d
Descendants(m, d) == ReachableFrom(m, Children(m, d))

\* no directory's child range contains that directory or one of its ancestors
Tree(m) ==
  \A d \in Positions(m) : IsDirectory(m, d) => d \notin Descendants(m, d)

\* depth-first pre-order of the subtree of e: e, then the subtree of each
\* of its children in ascending position
RECURSIVE PreOrderOf(_, _, _), PreOrderRange(_, _, _, _)
PreOrderOf(m, e, depth) ==
  IF IsDirectory(m, e) /\ depth > 0
    THEN LET d == getdir(m, e)
         IN <<e>> \o PreOrderRange(m, d.first_entry, d.first_entry + d.entry_count, depth - 1)
    ELSE <<e>>
PreOrderRange(m, cur, end, depth) ==
  IF cur >= end THEN <<>>
  ELSE PreOrderOf(m, cur, depth) \o PreOrderRange(m, cur + 1, end, depth)

PreOrder(m, root) == PreOrderOf(m, root, Len(m.entries))

\* C13: walk visits the entries in depth-first pre-order: the root first,
\* every directory before its descendants, the children of a directory in
\* ascending position, the whole subtree of a child before the next sibling.
C13_WalkPreOrder ==
  (call.op = "walk" /\ WellFormed(meta_) /\ Tree(meta_))
  => visited = PreOrder(meta_, root_)

\* the characters a column of the mode string can hold
ModeColumns ==
  << {"U", "-"}, {"G", "-"}, {"S", "-"}, {"d", "l", "-"},
     {"r", "-"}, {"w", "-"}, {"x", "-"},
     {"r", "-"}, {"w", "-"}, {"x", "-"},
     {"r", "-"}, {"w", "-"}, {"x", "-"} >>

\* C14 as stated: for every 16-bit mode word the rendered mode string has
\* exactly 12 characters.
C14_TwelveCharacters ==
  rendered.done => Len(rendered.str) = 12

\* C14 amended: for every 16-bit mode word the rendered mode string has
\* exactly 13 characters: one each for setuid, setgid, sticky and type,
\* followed by the three rwx triples.
C14_ThirteenCharacters ==
  rendered.done
  => /\ Len(rendered.str) = 13
     /\ Len(rendered.str) = Len(ModeColumns)
     /\ \A k \in DOMAIN rendered.str : rendered.str[k] \in ModeColumns[k]
     /\ (rendered.str[1] = "U") = (BitAnd(rendered.mode, S_ISUID) # 0)
     /\ (rendered.str[2] = "G") = (BitAnd(rendered.mode, S_ISGID) # 0)
     /\ (rendered.str[3] = "S") = (BitAnd(rendered.mode, S_ISVTX) # 0)
     /\ (rendered.str[4] = "d") = S_ISDIR(rendered.mode)

C14_Witness ==
  /\ rendered.done
  /\ rendered.mode = BitOr(S_IFDIR, 4095)
  /\ rendered.str = <<"U", "G", "S", "d", "r", "w", "x", "r", "w", "x", "r", "w", "x">>

\* C15: on every record whose directories form a tree, a walk and a dump
\* that have been called terminate (after at most MaxSteps visitor calls or
\* entry lines in the records of the model).
C15_TraversalTerminates ==
  (trav.status = "running" /\ WellFormed(meta_) /\ Tree(meta_))
  ~> (trav.status = "done")

C15_Witness ==
  /\ trav.status = "done"
  /\ trav.op = "dump"
  /\ meta_ = NestedRecord
  /\ Tree(meta_)
  /\ Len(trav.out) = Len(meta_.entries)
  /\ LET whole == dump(meta_, chunk_index_offset_, root_).os
     IN /\ Len(whole) = Len(trav.out)
        /\ \A k \in DOMAIN whole : whole[k].inode = At(meta_.entries, trav.out[k]).inode

\* --input and --output are given and --help is not
RunRequested == mk.args.input /\ mk.args.output /\ ~mk.args.help

\* --order=script has no script object to work with
ScriptOrderWithoutScript ==
  mk.args.order = "script" /\ ~(mk.args.have_lua /\ mk.args.script = "loaded")

\* C16: in a run with --input and --output and without --help, every option
\* validation happens before the output file is opened: a compression level
\* >= 10, or --order=script without a usable script, ends with exit status 1
\* and the output file is never opened; a run that reaches the writer exits
\* with 1 exactly when prog.errors > 0 or an exception was thrown, else 0.
C16_ValidationBeforeOutput ==
  RunRequested
  => /\ (mk.args.level >= 10 \/ ScriptOrderWithoutScript)
        => /\ ~mk.output_opened
           /\ mk.pc = "exited" => mk.exit = 1
     /\ mk.output_opened
        => /\ mk.args.invalid = "none"
           /\ mk.args.level < 10
           /\ ~ScriptOrderWithoutScript
           /\ mk.thrown => mk.pc \in {"thrown", "exited"}
     /\ (mk.output_opened /\ mk.pc = "exited")
        => /\ mk.exit \in {0, 1}
           /\ (mk.exit = 1) = (mk.errors > 0 \/ mk.thrown)

C16_Witness ==
  /\ RunRequested
  /\ mk.args.invalid = "none"
  /\ mk.args.level = 10
  /\ mk.pc = "exited"
  /\ mk.exit = 1
  /\ ~mk.output_opened

====
